---- MODULE Spec2Model ----
(***************************************************************************)
(* Model of the intelligent support agent: the in-memory conversation      *)
(* context store (src/src/mcp/protocol.py) and the query orchestrator      *)
(* (src/src/main.py).                                                      *)
(*                                                                         *)
(* Python objects are modelled by reference: `heap` maps object ids to the *)
(* list and dict objects of the interpreter, `conversations` is the dict   *)
(* of the ModelContextProtocol instance and holds, per session id, the ids *)
(* of the Conversation's `messages` list and `metadata` dict.  A caller of *)
(* the store holds the objects returned to it (`context`, `metadata`).     *)
(* The timestamp of a Message is set from the wall clock and is read by no *)
(* code of the repository; it is left out of the Message record.           *)
(***************************************************************************)
EXTENDS Integers, Sequences, FiniteSets, TLC

VARIABLES
    conversations,  \* ModelContextProtocol.conversations: session id -> Conversation
    heap,           \* the list and dict objects, by object id
    context,        \* the list object the caller got from its last get_context (0: none)
    metadata,       \* the dict object the caller got from its last get_metadata (0: none)
    last,           \* the call that was made last, with its arguments and outcome
    qdrant,         \* the vector database: its collections and the calls it received
    threads,        \* per thread: where it is in add_message, and the calls it has made
    loop            \* the event loop: the request task it runs, and each task's position

vars == <<conversations, heap, context, metadata, last, qdrant, threads, loop>>

----------------------------------------------------------------------------
(* Bounds and input domains *)

MaxMessages == 2        \* messages held by the whole store in the explored runs
MaxWindow == 3          \* largest explicit max_messages tried
MinWindow == 1          \* distance below zero of the smallest max_messages tried
MaxLong == 12           \* length of the long conversation of SpecLong
MaxTurns == 2           \* successful queries held by the whole store in SpecQuery
MaxDocs == 1            \* documents a search returns in the explored runs
MaxUuids == 2           \* session ids uuid4 can produce in the explored runs
MaxHistory == 2         \* length of the histories passed to generate_response directly
MaxBoots == 3           \* VectorStore objects constructed in the explored runs
MaxCalls == 2           \* add_message calls a thread makes in the explored runs
MaxLoad == 2            \* documents one add_documents call loads in the explored runs

DEFAULT_MAX_MESSAGES == 10
DEFAULT_CONTEXT_SIZE == 5
COLLECTION_NAME == "payment_docs"
VECTOR_SIZE == 768

\* the session ids callers pass, and the ones str(uuid.uuid4()) produces
Sessions == {"s1", "s2"}
Uuids == {"uuid-" \o ToString(i) : i \in 1 .. MaxUuids}
\* every id a session can have, in a fixed order
SessionOrder == <<"s1", "s2">> \o [i \in 1 .. MaxUuids |-> "uuid-" \o ToString(i)]
Roles == {"user", "assistant", "custom_assistant"}
Contents == {"", "   ", "pay"}
\* the (role, content) pairs the callers of add_message pass: a usual message,
\* whitespace-only content, and a role outside user/assistant/system with empty content
MessageInputs == {<<"user", "pay">>, <<"assistant", "   ">>, <<"custom_assistant", "">>}
\* the dicts the callers of update_metadata pass
MetadataInputs == {[k \in {} |-> "a"], [k \in {"topic"} |-> "a"],
                   [k \in {"topic", "lang"} |-> IF k = "topic" THEN "b" ELSE "a"]}
Windows == (0 - MinWindow) .. MaxWindow
\* query texts of requests and texts the generation endpoint returns
Queries == {"", "pay"}
Responses == {"pay", "use card"}
ContextSizes == {1, DEFAULT_CONTEXT_SIZE}
\* payloads the vector database holds: one with a content field, one without
Documents == {[title |-> "Card Payment Issues", content |-> "insufficient funds"],
              [title |-> "Untitled"]}

NoRef == 0
NoExc == <<>>           \* no exception; an exception is its message, outermost first

Min(a, b) == IF a < b THEN a ELSE b
Max(a, b) == IF a > b THEN a ELSE b

Message(role, content) == [role |-> role, content |-> content]

EmptyDict == [k \in {} |-> "a"]
EmptyConversations == [s \in {} |-> [messages |-> NoRef, metadata |-> NoRef]]

----------------------------------------------------------------------------
(* The interpreter's objects *)

ListObj(seq) == [type |-> "list", val |-> seq]
DictObj(d) == [type |-> "dict", val |-> d]

\* the id given to a newly constructed object: one that no live object has
NewId(h) ==
    CHOOSE i \in 1 .. (Cardinality(DOMAIN h) + 1) :
        /\ i \notin DOMAIN h
        /\ \A j \in 1 .. (i - 1) : j \in DOMAIN h

Alloc(h, obj) ==
    LET id == NewId(h)
    IN  [i \in DOMAIN h \cup {id} |-> IF i = id THEN obj ELSE h[i]]

Put(h, id, obj) == [i \in DOMAIN h |-> IF i = id THEN obj ELSE h[i]]

\* dict.update(other): keys of other overwrite, the rest is kept
DictUpdate(d, other) ==
    [k \in DOMAIN d \cup DOMAIN other |-> IF k \in DOMAIN other THEN other[k] ELSE d[k]]

\* seq[start:] of Python, for any integer start
PySliceFrom(seq, start) ==
    LET n == Len(seq)
        lo == IF start < 0 THEN Max(n + start, 0) ELSE Min(start, n)
    IN  SubSeq(seq, lo + 1, n)

\* The references that keep objects alive, in a fixed order: the conversations'
\* lists and dicts by session, then what the caller holds.
RECURSIVE SessionRefs(_, _)
SessionRefs(convs, i) ==
    IF i > Len(SessionOrder) THEN <<>>
    ELSE (IF SessionOrder[i] \in DOMAIN convs
          THEN <<convs[SessionOrder[i]].messages, convs[SessionOrder[i]].metadata>>
          ELSE <<>>) \o SessionRefs(convs, i + 1)

Roots(convs, ctx, md) == SessionRefs(convs, 1) \o <<ctx, md>>

\* Object ids are not observable by the program (nothing reads id()), so after
\* each call the live objects are renumbered 1..n in the order of Roots and the
\* unreferenced ones are reclaimed.
Rank(roots, id) ==
    IF id = NoRef THEN NoRef
    ELSE LET first == CHOOSE i \in 1 .. Len(roots) :
                          roots[i] = id /\ \A j \in 1 .. (i - 1) : roots[j] # id
         IN  Cardinality({roots[j] : j \in 1 .. (first - 1)} \ {NoRef}) + 1

Collect(st, ctx, md) ==
    LET roots == Roots(st.conversations, ctx, md)
        live == {roots[i] : i \in 1 .. Len(roots)} \ {NoRef}
    IN  [conversations |->
             [s \in DOMAIN st.conversations |->
                 [messages |-> Rank(roots, st.conversations[s].messages),
                  metadata |-> Rank(roots, st.conversations[s].metadata)]],
         heap |-> [n \in 1 .. Cardinality(live) |->
                      st.heap[CHOOSE id \in live : Rank(roots, id) = n]],
         context |-> Rank(roots, ctx),
         metadata |-> Rank(roots, md)]

----------------------------------------------------------------------------
(* ModelContextProtocol: each method maps the store st = [conversations,    *)
(* heap] to the store after the call, its return value and its exception.  *)

Outcome(st, ret, exc) == [st |-> st, ret |-> ret, exc |-> exc]

\* as Conversation, with the messages list shared by every conversation (a
\* default list built once instead of by default_factory)
Conversation_shared(st, session_id) ==
    LET h1 == Alloc(st.heap, ListObj(<<>>))
        l == IF DOMAIN st.conversations = {} THEN NewId(st.heap)
             ELSE st.conversations[CHOOSE s \in DOMAIN st.conversations : TRUE].messages
        base == IF DOMAIN st.conversations = {} THEN h1 ELSE st.heap
        h2 == Alloc(base, DictObj(EmptyDict))
        d == NewId(base)
    IN  [conversations |->
             [s \in DOMAIN st.conversations \cup {session_id} |->
                 IF s = session_id THEN [messages |-> l, metadata |-> d]
                 ELSE st.conversations[s]],
         heap |-> h2]

\* Conversation(): a new messages list and a new metadata dict
Conversation(st, session_id) ==
    LET h1 == Alloc(st.heap, ListObj(<<>>))
        l == NewId(st.heap)
        h2 == Alloc(h1, DictObj(EmptyDict))
        d == NewId(h1)
    IN  [conversations |->
             [s \in DOMAIN st.conversations \cup {session_id} |->
                 IF s = session_id THEN [messages |-> l, metadata |-> d]
                 ELSE st.conversations[s]],
         heap |-> h2]

\* as insert_session, binding self.conversations to a new dict that holds the
\* new session alone
insert_session_new_map(st, session_id) ==
    Conversation([st EXCEPT !.conversations = EmptyConversations], session_id)

\* self.conversations[session_id] = Conversation(), whatever the dict holds
insert_session(st, session_id) == Conversation(st, session_id)

\* as create_session, without the membership test: an existing session is reset
create_session_reset(st, session_id) ==
    Outcome(Conversation(st, session_id), NoRef, NoExc)

create_session(st, session_id) ==
    IF session_id \notin DOMAIN st.conversations
    THEN Outcome(Conversation(st, session_id), NoRef, NoExc)
    ELSE Outcome(st, NoRef, NoExc)

\* as add_message, keeping only the window of the latest messages in the list
add_message_capped(st, session_id, role, content) ==
    LET s1 == create_session(st, session_id).st
        l == s1.conversations[session_id].messages
    IN  Outcome([conversations |-> s1.conversations,
                 heap |-> Put(s1.heap, l,
                              ListObj(PySliceFrom(Append(s1.heap[l].val,
                                                         Message(role, content)),
                                                  0 - DEFAULT_MAX_MESSAGES)))],
                NoRef, NoExc)

\* as add_message, refusing a role outside user/assistant/system
add_message_validated(st, session_id, role, content) ==
    LET s1 == create_session(st, session_id).st
        l == s1.conversations[session_id].messages
    IN  IF role \notin {"user", "assistant", "system"}
        THEN Outcome(st, NoRef, <<"invalid role">>)
        ELSE Outcome([conversations |-> s1.conversations,
                      heap |-> Put(s1.heap, l,
                                   ListObj(Append(s1.heap[l].val, Message(role, content))))],
                     NoRef, NoExc)

add_message(st, session_id, role, content) ==
    LET s1 == create_session(st, session_id).st
        l == s1.conversations[session_id].messages
    IN  Outcome([conversations |-> s1.conversations,
                 heap |-> Put(s1.heap, l,
                              ListObj(Append(s1.heap[l].val, Message(role, content))))],
                NoRef, NoExc)

\* messages[:max_messages], the head instead of the tail
Window_head(messages, max_messages) ==
    SubSeq(messages, 1, Min(Max(max_messages, 0), Len(messages)))

\* messages[-max_messages:]
Window(messages, max_messages) == PySliceFrom(messages, 0 - max_messages)

\* as get_context, handing out the stored list itself when the window covers it
get_context_alias(st, session_id, max_messages) ==
    IF session_id \notin DOMAIN st.conversations
    THEN Outcome([st EXCEPT !.heap = Alloc(st.heap, ListObj(<<>>))],
                 NewId(st.heap), NoExc)
    ELSE LET l == st.conversations[session_id].messages
         IN  IF max_messages >= Len(st.heap[l].val)
             THEN Outcome(st, l, NoExc)
             ELSE Outcome([st EXCEPT !.heap =
                              Alloc(st.heap, ListObj(Window(st.heap[l].val, max_messages)))],
                          NewId(st.heap), NoExc)

\* as get_context, creating the session it is asked about when it is unknown
get_context_creating(st, session_id, max_messages) ==
    LET s1 == create_session(st, session_id).st
        l == s1.conversations[session_id].messages
    IN  Outcome([s1 EXCEPT !.heap =
                    Alloc(s1.heap, ListObj(Window(s1.heap[l].val, max_messages)))],
                NewId(s1.heap), NoExc)

\* as get_context, without the membership test: an unknown id is a KeyError
get_context_unchecked(st, session_id, max_messages) ==
    IF session_id \notin DOMAIN st.conversations
    THEN Outcome(st, NoRef, <<"KeyError", session_id>>)
    ELSE LET l == st.conversations[session_id].messages
         IN  Outcome([st EXCEPT !.heap =
                         Alloc(st.heap, ListObj(Window(st.heap[l].val, max_messages)))],
                     NewId(st.heap), NoExc)

get_context(st, session_id, max_messages) ==
    IF session_id \notin DOMAIN st.conversations
    THEN Outcome([st EXCEPT !.heap = Alloc(st.heap, ListObj(<<>>))],
                 NewId(st.heap), NoExc)
    ELSE LET l == st.conversations[session_id].messages
         IN  Outcome([st EXCEPT !.heap =
                         Alloc(st.heap, ListObj(Window(st.heap[l].val, max_messages)))],
                     NewId(st.heap), NoExc)

\* as clear_session, emptying the messages list and keeping the session
clear_session_messages_only(st, session_id) ==
    IF session_id \in DOMAIN st.conversations
    THEN Outcome([st EXCEPT !.heap =
                     Put(st.heap, st.conversations[session_id].messages, ListObj(<<>>))],
                 NoRef, NoExc)
    ELSE Outcome(st, NoRef, NoExc)

clear_session(st, session_id) ==
    IF session_id \in DOMAIN st.conversations
    THEN Outcome([st EXCEPT !.conversations =
                     [s \in DOMAIN st.conversations \ {session_id} |-> st.conversations[s]]],
                 NoRef, NoExc)
    ELSE Outcome(st, NoRef, NoExc)

\* as update_metadata, assigning the dict instead of merging into it
update_metadata_replace(st, session_id, md) ==
    LET s1 == create_session(st, session_id).st
        d == s1.conversations[session_id].metadata
    IN  Outcome([conversations |-> s1.conversations,
                 heap |-> Put(s1.heap, d, DictObj(md))],
                NoRef, NoExc)

update_metadata(st, session_id, md) ==
    LET s1 == create_session(st, session_id).st
        d == s1.conversations[session_id].metadata
    IN  Outcome([conversations |-> s1.conversations,
                 heap |-> Put(s1.heap, d, DictObj(DictUpdate(s1.heap[d].val, md)))],
                NoRef, NoExc)

get_metadata(st, session_id) ==
    IF session_id \notin DOMAIN st.conversations
    THEN Outcome([st EXCEPT !.heap = Alloc(st.heap, DictObj(EmptyDict))],
                 NewId(st.heap), NoExc)
    ELSE Outcome(st, st.conversations[session_id].metadata, NoExc)

----------------------------------------------------------------------------
(* VectorStore and the vector database behind its client.  A database db    *)
(* holds its collections by name, each with its vector configuration and    *)
(* its records by id, and counts the create_collection calls it received    *)
(* and the VectorStore objects connected to it.  `up` says whether the      *)
(* database answers.                                                       *)

NewCollection == [size |-> VECTOR_SIZE, distance |-> "Cosine", records |-> <<>>]
NoCollections == [c \in {} |-> NewCollection]
EmptyDatabase == [collections |-> NoCollections, create_calls |-> 0, stores |-> 0]

\* client.create_collection: refused for a name that exists
create_collection(db, name) ==
    IF name \in DOMAIN db.collections
    THEN [db |-> [db EXCEPT !.create_calls = @ + 1], exc |-> <<"collection exists">>]
    ELSE [db |-> [db EXCEPT !.create_calls = @ + 1,
                            !.collections = [c \in DOMAIN db.collections \cup {name} |->
                                                IF c = name THEN NewCollection
                                                ELSE db.collections[c]]],
          exc |-> NoExc]

\* as _init_collection, creating the collection without looking for it
init_collection_unconditional(db, up) ==
    IF ~up THEN [db |-> db, exc |-> <<"connection refused">>]
    ELSE create_collection(db, COLLECTION_NAME)

\* _init_collection
init_collection(db, up) ==
    IF ~up THEN [db |-> db, exc |-> <<"connection refused">>]
    ELSE IF ~(\E c \in DOMAIN db.collections : c = COLLECTION_NAME)
    THEN create_collection(db, COLLECTION_NAME)
    ELSE [db |-> db, exc |-> NoExc]

\* VectorStore(config): the object exists if _init_collection did not raise
VectorStore(db, up) ==
    LET r == init_collection(db, up)
    IN  IF r.exc # NoExc THEN r
        ELSE [db |-> [r.db EXCEPT !.stores = @ + 1], exc |-> NoExc]

\* as add_documents, with the collection emptied before the upload
add_documents_replacing(db, documents, up) ==
    IF \E i \in 1 .. Len(documents) : "content" \notin DOMAIN documents[i]
    THEN [db |-> db, exc |-> <<"'content'">>]
    ELSE IF ~up THEN [db |-> db, exc |-> <<"connection refused">>]
    ELSE IF COLLECTION_NAME \notin DOMAIN db.collections
    THEN [db |-> db, exc |-> <<"collection not found">>]
    ELSE [db |-> [db EXCEPT !.collections[COLLECTION_NAME].records = documents],
          exc |-> NoExc]

\* add_documents: record idx holds documents[idx], ids counted from 0 (the
\* records are kept as a sequence, record idx at position idx + 1)
add_documents(db, documents, up) ==
    IF \E i \in 1 .. Len(documents) : "content" \notin DOMAIN documents[i]
    THEN [db |-> db, exc |-> <<"'content'">>]
    ELSE IF ~up THEN [db |-> db, exc |-> <<"connection refused">>]
    ELSE IF COLLECTION_NAME \notin DOMAIN db.collections
    THEN [db |-> db, exc |-> <<"collection not found">>]
    ELSE LET old == db.collections[COLLECTION_NAME].records
             new == [i \in 1 .. Max(Len(old), Len(documents)) |->
                        IF i <= Len(documents) THEN documents[i] ELSE old[i]]
         IN  [db |-> [db EXCEPT !.collections[COLLECTION_NAME].records = new],
              exc |-> NoExc]

----------------------------------------------------------------------------
(* VectorStore.search and PaymentSupportChain, as far as a query sees them: *)
(* the vector database and the generation endpoint are outside the program, *)
(* so what they answer (or that they raise) is an input of the call.        *)

Raised(exc) == [exc |-> exc]
Returned(val) == [exc |-> NoExc, val |-> val]

\* raise Error(f"{message}: {str(e)}")
Wrap(message, e) == <<message>> \o e

\* what client.search can answer for a limit: an error, or up to limit payloads
SearchAnswers(limit) ==
    {Raised(<<"search unavailable">>)} \cup
    {Returned(docs) : docs \in UNION {[1 .. n -> Documents] : n \in 0 .. Min(limit, MaxDocs)}}

\* what chain.invoke can answer: an error, or a text
LlmAnswers == {Raised(<<"endpoint unreachable">>)} \cup {Returned(text) : text \in Responses}

\* search returns the payloads of the hits, or fails as the client does
search(query, limit, answer) == answer

\* what client.search can answer on the database db: min(limit, n) of the n
\* records of the collection, each once, in the order of their scores (which
\* the embedding model decides); an error if the database or the collection
\* is not there
Hits(db, limit, up) ==
    IF ~up THEN {Raised(<<"search unavailable">>)}
    ELSE IF COLLECTION_NAME \notin DOMAIN db.collections
    THEN {Raised(<<"collection not found">>)}
    ELSE LET records == db.collections[COLLECTION_NAME].records
             k == Min(limit, Len(records))
         IN  {Returned([i \in 1 .. k |-> records[ids[i]]]) :
                 ids \in {f \in [1 .. k -> 1 .. Len(records)] :
                             \A i, j \in 1 .. k : i # j => f[i] # f[j]}}

\* str.capitalize() on the roles that occur
Capitalize(role) ==
    CASE role = "user" -> "User"
      [] role = "assistant" -> "Assistant"
      [] role = "custom_assistant" -> "Custom_assistant"

\* "Document i:\n<content>" per document; a document without content raises
format_context(docs) ==
    IF \E i \in 1 .. Len(docs) : "content" \notin DOMAIN docs[i]
    THEN Raised(Wrap("Invalid context format", <<"'content'">>))
    ELSE Returned([i \in 1 .. Len(docs) |-> [document |-> i, content |-> docs[i].content]])

\* "<Role>: <content>" per message; an element without a role raises
format_history(history) ==
    IF \E i \in 1 .. Len(history) : "role" \notin DOMAIN history[i]
    THEN Raised(Wrap("Invalid history format", <<"no attribute 'role'">>))
    ELSE Returned([i \in 1 .. Len(history) |->
                      [role |-> Capitalize(history[i].role), content |-> history[i].content]])

\* the outcome of generate_response with the number of chain.invoke calls made
Invoked(n, outcome) ==
    [f \in DOMAIN outcome \cup {"invocations"} |->
        IF f = "invocations" THEN n ELSE outcome[f]]

\* as generate_response, invoking the chain a second time when it raised; the
\* endpoint answers the second call as it did the first
generate_response_retry(docs, history, question, llm) ==
    LET context_str == format_context(docs)
        history_str == format_history(history)
    IN  IF context_str.exc # NoExc
        THEN Invoked(0, Raised(Wrap("Failed to generate response", context_str.exc)))
        ELSE IF history_str.exc # NoExc
        THEN Invoked(0, Raised(Wrap("Failed to generate response", history_str.exc)))
        ELSE IF llm.exc # NoExc
        THEN Invoked(2, Raised(Wrap("Failed to generate response", llm.exc)))
        ELSE Invoked(1, Returned(llm.val))

\* llm is what chain.invoke does when it is called
generate_response(docs, history, question, llm) ==
    LET context_str == format_context(docs)
        history_str == format_history(history)
    IN  IF context_str.exc # NoExc
        THEN Invoked(0, Raised(Wrap("Failed to generate response", context_str.exc)))
        ELSE IF history_str.exc # NoExc
        THEN Invoked(0, Raised(Wrap("Failed to generate response", history_str.exc)))
        ELSE IF llm.exc # NoExc
        THEN Invoked(1, Raised(Wrap("Failed to generate response", llm.exc)))
        ELSE Invoked(1, Returned(llm.val))

----------------------------------------------------------------------------
(* PaymentSupportSystem.process_query *)

\* the outcome of a query, with the generate_response call it made if it got
\* that far: `generation` holds the conversation_history argument of the call
NotGenerated == [called |-> FALSE]
Generated(history) == [called |-> TRUE, conversation_history |-> history]
QueryOutcome(st, ret, exc, generation) ==
    [st |-> st, ret |-> ret, exc |-> exc, generation |-> generation]

\* as process_query, recording the user message before the search
process_query_eager(st, session_id, query, context_size, answer, llm) ==
    LET s0 == add_message(st, session_id, "user", query).st
        relevant_docs == search(query, context_size, answer)
        hist == get_context(s0, session_id, DEFAULT_MAX_MESSAGES)
        response == generate_response(relevant_docs.val, hist.st.heap[hist.ret].val,
                                      query, llm)
        s2 == add_message(hist.st, session_id, "assistant", response.val).st
    IN  IF relevant_docs.exc # NoExc
        THEN QueryOutcome(s0, NoRef, Wrap("Failed to process query", relevant_docs.exc),
                          NotGenerated)
        ELSE IF response.exc # NoExc
        THEN QueryOutcome(hist.st, NoRef, Wrap("Failed to process query", response.exc),
                          Generated(hist.st.heap[hist.ret].val))
        ELSE QueryOutcome(s2, response.val, NoExc, Generated(hist.st.heap[hist.ret].val))

\* as process_query, recording the assistant message before the user message
process_query_swapped(st, session_id, query, context_size, answer, llm) ==
    LET relevant_docs == search(query, context_size, answer)
        hist == get_context(st, session_id, DEFAULT_MAX_MESSAGES)
        response == generate_response(relevant_docs.val, hist.st.heap[hist.ret].val,
                                      query, llm)
        s1 == add_message(hist.st, session_id, "assistant", response.val).st
        s2 == add_message(s1, session_id, "user", query).st
    IN  IF relevant_docs.exc # NoExc
        THEN QueryOutcome(st, NoRef, Wrap("Failed to process query", relevant_docs.exc),
                          NotGenerated)
        ELSE IF response.exc # NoExc
        THEN QueryOutcome(hist.st, NoRef, Wrap("Failed to process query", response.exc),
                          Generated(hist.st.heap[hist.ret].val))
        ELSE QueryOutcome(s2, response.val, NoExc, Generated(hist.st.heap[hist.ret].val))

\* as process_query, reading the history with the request's context_size as window
process_query_sized(st, session_id, query, context_size, answer, llm) ==
    LET relevant_docs == search(query, context_size, answer)
        hist == get_context(st, session_id, context_size)
        response == generate_response(relevant_docs.val, hist.st.heap[hist.ret].val,
                                      query, llm)
        s1 == add_message(hist.st, session_id, "user", query).st
        s2 == add_message(s1, session_id, "assistant", response.val).st
    IN  IF relevant_docs.exc # NoExc
        THEN QueryOutcome(st, NoRef, Wrap("Failed to process query", relevant_docs.exc),
                          NotGenerated)
        ELSE IF response.exc # NoExc
        THEN QueryOutcome(hist.st, NoRef, Wrap("Failed to process query", response.exc),
                          Generated(hist.st.heap[hist.ret].val))
        ELSE QueryOutcome(s2, response.val, NoExc, Generated(hist.st.heap[hist.ret].val))

process_query(st, session_id, query, context_size, answer, llm) ==
    LET relevant_docs == search(query, context_size, answer)
        hist == get_context(st, session_id, DEFAULT_MAX_MESSAGES)
        response == generate_response(relevant_docs.val, hist.st.heap[hist.ret].val,
                                      query, llm)
        s1 == add_message(hist.st, session_id, "user", query).st
        s2 == add_message(s1, session_id, "assistant", response.val).st
    IN  IF relevant_docs.exc # NoExc
        THEN QueryOutcome(st, NoRef, Wrap("Failed to process query", relevant_docs.exc),
                          NotGenerated)
        ELSE IF response.exc # NoExc
        THEN QueryOutcome(hist.st, NoRef, Wrap("Failed to process query", response.exc),
                          Generated(hist.st.heap[hist.ret].val))
        ELSE QueryOutcome(s2, response.val, NoExc, Generated(hist.st.heap[hist.ret].val))

----------------------------------------------------------------------------
(* POST /query.  A request is the QueryRequest after validation: it has no  *)
(* session_id field when the body carried none (None), and uuid is the text *)
(* uuid.uuid4() would produce.  The response is its status with the         *)
(* QueryResponse body, or with the detail of the HTTPException.             *)

RequestSessionIds == {"", "s1"}
\* the requests tried: one query text, context_size left at its default
Requests ==
    [query : {"pay"}, context_size : {DEFAULT_CONTEXT_SIZE}] \cup
    [query : {"pay"}, session_id : RequestSessionIds, context_size : {DEFAULT_CONTEXT_SIZE}]

\* request.session_id or str(uuid.uuid4()): None and "" are both falsy
SessionIdOr(request, uuid) ==
    IF "session_id" \in DOMAIN request /\ request.session_id # ""
    THEN request.session_id
    ELSE uuid

\* as query_endpoint, answering a failed query with an empty response
query_endpoint_partial(st, request, uuid, answer, llm) ==
    LET session_id == SessionIdOr(request, uuid)
        o == process_query(st, session_id, request.query, request.context_size, answer, llm)
    IN  [st |-> o.st, session_id |-> session_id, status |-> 200,
         body |-> [session_id |-> session_id,
                   response |-> IF o.exc # NoExc THEN "" ELSE o.ret]]

query_endpoint(st, request, uuid, answer, llm) ==
    LET session_id == SessionIdOr(request, uuid)
        o == process_query(st, session_id, request.query, request.context_size, answer, llm)
    IN  IF o.exc # NoExc
        THEN [st |-> o.st, session_id |-> session_id, status |-> 500, detail |-> o.exc]
        ELSE [st |-> o.st, session_id |-> session_id, status |-> 200,
              body |-> [session_id |-> session_id, response |-> o.ret]]

----------------------------------------------------------------------------
(* The state machine *)

Store == [conversations |-> conversations, heap |-> heap]
StoreAfter == [conversations |-> conversations', heap |-> heap']

MessagesOf(st, s) == st.heap[st.conversations[s].messages].val
MetadataOf(st, s) == st.heap[st.conversations[s].metadata].val

\* the messages of a session, empty for a session that is absent
History(st, s) == IF s \in DOMAIN st.conversations THEN MessagesOf(st, s) ELSE <<>>

\* what the store holds, by value: per session its messages and its metadata
View(st) ==
    [s \in DOMAIN st.conversations |->
        [messages |-> MessagesOf(st, s), metadata |-> MetadataOf(st, s)]]

\* number of messages a session holds, 0 for a session that is absent
Count(st, s) == IF s \in DOMAIN st.conversations THEN Len(MessagesOf(st, s)) ELSE 0

RECURSIVE Total(_, _)
Total(st, i) ==
    IF i > Len(SessionOrder) THEN 0 ELSE Count(st, SessionOrder[i]) + Total(st, i + 1)

\* the state after a call that leaves the caller holding ctx and md
Commit(o, ctx, md) ==
    LET c == Collect(o.st, ctx, md)
    IN  /\ conversations' = c.conversations
        /\ heap' = c.heap
        /\ context' = c.context
        /\ metadata' = c.metadata
        /\ qdrant' = qdrant
        /\ threads' = threads
        /\ loop' = loop

ThreadOrder == <<"t1", "t2">>
Threads == {ThreadOrder[i] : i \in 1 .. Len(ThreadOrder)}

NoCall == [session_id |-> "", role |-> "", content |-> "", overlapped |-> FALSE,
           exc |-> NoExc]
\* a thread that is in no call: `absent` is the result of its membership test,
\* `messages` the list it has fetched, `done` the calls it has returned from
IdleThread == [pc |-> "idle", call |-> NoCall, absent |-> FALSE, messages |-> NoRef,
               done |-> <<>>]

Tasks == {"r1", "r2"}

\* a request task that handles no request: `request` is the QueryRequest,
\* the other fields are the locals of query_endpoint and process_query
IdleTask == [pc |-> "idle", request |-> [query |-> "", context_size |-> DEFAULT_CONTEXT_SIZE],
             session_id |-> "", relevant_docs |-> <<>>, conversation_history |-> <<>>,
             response |-> "", exc |-> NoExc, overlapped |-> FALSE]

\* a new ModelContextProtocol, with no caller yet
InitStore ==
    /\ conversations = EmptyConversations
    /\ heap = [i \in {} |-> ListObj(<<>>)]
    /\ context = NoRef
    /\ metadata = NoRef
    /\ last = [op |-> "init"]
    /\ threads = [t \in Threads |-> IdleThread]
    /\ loop = [running |-> "none", tasks |-> [t \in Tasks |-> IdleTask]]

\* PaymentSupportSystem(config) on a database that had no collection
Init ==
    /\ InitStore
    /\ qdrant = VectorStore(EmptyDatabase, TRUE).db

\* The caller keeps the list it got from get_context while it goes on adding
\* messages, and the dict it got from get_metadata while it goes on updating
\* metadata; at any other call it has let go of them.
CreateSession(sid) ==
    LET o == create_session(Store, sid)
    IN  /\ Commit(o, NoRef, NoRef)
        /\ last' = [op |-> "create_session", sid |-> sid, exc |-> o.exc]

Call_add_message(sid, role, content) ==
    LET o == add_message(Store, sid, role, content)
    IN  /\ Commit(o, context, NoRef)
        /\ last' = [op |-> "add_message", sid |-> sid, role |-> role,
                    content |-> content, exc |-> o.exc]

AddMessage(sid, role, content) ==
    /\ Total(Store, 1) < MaxMessages
    /\ Call_add_message(sid, role, content)

GetContext(sid, k) ==
    LET o == get_context(Store, sid, k)
    IN  /\ Commit(o, o.ret, NoRef)
        /\ last' = [op |-> "get_context", sid |-> sid, max_messages |-> k, exc |-> o.exc]

\* `held` notes how many messages and metadata keys the session had when the
\* call was made (0 and 0 for an absent session); the program does not read it.
ClearSession(sid) ==
    LET o == clear_session(Store, sid)
    IN  /\ Commit(o, NoRef, NoRef)
        /\ last' = [op |-> "clear_session", sid |-> sid, exc |-> o.exc,
                    held |-> IF sid \in DOMAIN conversations
                             THEN <<Len(MessagesOf(Store, sid)),
                                    Cardinality(DOMAIN MetadataOf(Store, sid))>>
                             ELSE <<0, 0>>]

UpdateMetadata(sid, md) ==
    LET o == update_metadata(Store, sid, md)
    IN  /\ Commit(o, NoRef, metadata)
        /\ last' = [op |-> "update_metadata", sid |-> sid, md |-> md, exc |-> o.exc]

GetMetadata(sid) ==
    LET o == get_metadata(Store, sid)
    IN  /\ Commit(o, NoRef, o.ret)
        /\ last' = [op |-> "get_metadata", sid |-> sid, exc |-> o.exc]

\* one request handled by the orchestrator; it keeps no reference afterwards
Call_process_query(sid, query, context_size, answer, llm) ==
    LET o == process_query(Store, sid, query, context_size, answer, llm)
    IN  /\ Commit(o, NoRef, NoRef)
        /\ last' = [op |-> "process_query", sid |-> sid, query |-> query,
                    context_size |-> context_size, generation |-> o.generation,
                    response |-> o.ret, exc |-> o.exc]

ProcessQuery(sid, query, context_size, answer, llm) ==
    /\ Total(Store, 1) + 2 <= 2 * MaxTurns
    /\ Call_process_query(sid, query, context_size, answer, llm)

Next ==
    \/ \E sid \in Sessions : CreateSession(sid)
    \/ \E sid \in Sessions, m \in MessageInputs : AddMessage(sid, m[1], m[2])
    \/ \E sid \in Sessions : GetContext(sid, DEFAULT_MAX_MESSAGES)
    \/ \E sid \in Sessions : ClearSession(sid)
    \/ \E sid \in Sessions, md \in MetadataInputs : UpdateMetadata(sid, md)
    \/ \E sid \in Sessions : GetMetadata(sid)

Spec == Init /\ [][Next]_vars

----------------------------------------------------------------------------
(* Queries: the sessions' messages are written by process_query only.      *)

NextQuery ==
    \/ \E sid \in Sessions, query \in Queries, context_size \in ContextSizes :
           \E answer \in SearchAnswers(context_size), llm \in LlmAnswers :
               ProcessQuery(sid, query, context_size, answer, llm)
    \/ \E sid \in Sessions : ClearSession(sid)
    \/ \E sid \in Sessions : UpdateMetadata(sid, [k \in {"topic"} |-> "a"])

SpecQuery == Init /\ [][NextQuery]_vars

----------------------------------------------------------------------------
(* A long conversation (tests/test_mcp.py, test_long_conversation_history): *)
(* one session receives "Message 0", "Message 1", ... with alternating      *)
(* roles, and its context is read with every window.                       *)

LongSession == SessionOrder[1]

LongMessage(i) ==
    Message(IF i % 2 = 0 THEN "user" ELSE "assistant", "Message " \o ToString(i))

LongAddMessage ==
    LET i == Count(Store, LongSession)
    IN  /\ i < MaxLong
        /\ Call_add_message(LongSession, LongMessage(i).role, LongMessage(i).content)

NextLong ==
    \/ LongAddMessage
    \/ \E sid \in Sessions, k \in Windows \cup {DEFAULT_MAX_MESSAGES} : GetContext(sid, k)

SpecLong == Init /\ [][NextLong]_vars

----------------------------------------------------------------------------
(* The HTTP endpoint: requests with and without a session id.  uuid4 is     *)
(* taken to produce an id that no session of the store has.  `answer` and   *)
(* `llm` note what the vector database and the generation endpoint did.     *)

QueryEndpoint(request, uuid, answer, llm) ==
    LET r == query_endpoint(Store, request, uuid, answer, llm)
    IN  /\ Total(Store, 1) + 2 <= 2 * MaxTurns
        /\ uuid \notin DOMAIN conversations
        /\ Commit(r, NoRef, NoRef)
        /\ last' = [op |-> "query_endpoint", request |-> request, answer |-> answer,
                    llm |-> llm, response |-> [f \in DOMAIN r \ {"st"} |-> r[f]]]

NextEndpoint ==
    \/ \E request \in Requests, uuid \in Uuids :
           \E answer \in SearchAnswers(request.context_size), llm \in LlmAnswers :
               QueryEndpoint(request, uuid, answer, llm)
    \/ \E sid \in DOMAIN conversations : ClearSession(sid)

SpecEndpoint == Init /\ [][NextEndpoint]_vars

----------------------------------------------------------------------------
(* PaymentSupportChain.generate_response called directly, as the tests of   *)
(* tests/test_chain.py do: with any context and history, the empty ones and *)
(* malformed ones included.  The store is not involved.                    *)

\* the elements of a history: the messages of MessageInputs, and an object that
\* is no Message (it has no role)
HistoryElements ==
    {Message(m[1], m[2]) : m \in MessageInputs} \cup {[content |-> "pay"]}
Histories == UNION {[1 .. n -> HistoryElements] : n \in 0 .. MaxHistory}
Contexts == UNION {[1 .. n -> Documents] : n \in 0 .. MaxDocs}

GenerateResponse(docs, history, question, llm) ==
    /\ last' = [op |-> "generate_response", context |-> docs,
                conversation_history |-> history, question |-> question, llm |-> llm,
                result |-> generate_response(docs, history, question, llm)]
    /\ UNCHANGED <<conversations, heap, context, metadata, qdrant, threads, loop>>

NextChain ==
    \E docs \in Contexts, history \in Histories, question \in Queries, llm \in LlmAnswers :
        GenerateResponse(docs, history, question, llm)

SpecChain == Init /\ [][NextChain]_vars

----------------------------------------------------------------------------
(* The vector database over the starts of the program: it comes with or     *)
(* without the collection, left by an earlier run with or without a record, *)
(* and with or without a collection of another program; VectorStore objects *)
(* are constructed against it and documents are loaded through them.        *)

InitialCollections ==
    {NewCollection, [NewCollection EXCEPT !.records = <<[title |-> "Refunds",
                                                         content |-> "five days"]>>]}

InitialDatabases ==
    {[EmptyDatabase EXCEPT !.collections = cs] :
        cs \in UNION {[names -> InitialCollections] :
                         names \in SUBSET {COLLECTION_NAME, "other_docs"}}}

InitBoot ==
    /\ InitStore
    /\ qdrant \in InitialDatabases

Construct(up) ==
    LET r == VectorStore(qdrant, up)
    IN  /\ qdrant.stores < MaxBoots
        /\ qdrant' = r.db
        /\ last' = [op |-> "VectorStore", exc |-> r.exc]
        /\ UNCHANGED <<conversations, heap, context, metadata, threads, loop>>

\* `held` notes how many records the collection had when the call was made;
\* the program does not read it.
AddDocuments(documents, up) ==
    LET r == add_documents(qdrant, documents, up)
    IN  /\ qdrant.stores >= 1
        /\ qdrant' = r.db
        /\ last' = [op |-> "add_documents", documents |-> documents, exc |-> r.exc,
                    held |-> IF COLLECTION_NAME \in DOMAIN qdrant.collections
                             THEN Len(qdrant.collections[COLLECTION_NAME].records)
                             ELSE 0]
        /\ UNCHANGED <<conversations, heap, context, metadata, threads, loop>>

NextBoot ==
    \/ \E up \in BOOLEAN : Construct(up)
    \/ \E documents \in Contexts, up \in BOOLEAN : AddDocuments(documents, up)

SpecBoot == InitBoot /\ [][NextBoot]_vars

----------------------------------------------------------------------------
(* Loading and searching: add_documents is rerun with document lists of     *)
(* different lengths, and the collection is searched in between.            *)

\* the documents that are loaded: those of Documents and a second one with content
Loadable == Documents \cup {[title |-> "Refunds", content |-> "five days"]}
Loads == UNION {[1 .. n -> Loadable] : n \in 0 .. MaxLoad}

Search(query, limit, up) ==
    /\ qdrant.stores >= 1
    /\ \E answer \in Hits(qdrant, limit, up) :
           last' = [op |-> "search", limit |-> limit, result |-> search(query, limit, answer)]
    /\ UNCHANGED <<conversations, heap, context, metadata, qdrant, threads, loop>>

NextLoad ==
    \/ \E up \in BOOLEAN : Construct(up)
    \/ \E documents \in Loads, up \in BOOLEAN : AddDocuments(documents, up)
    \/ \E query \in Queries, limit \in ContextSizes, up \in BOOLEAN : Search(query, limit, up)

SpecLoad == InitBoot /\ [][NextLoad]_vars

----------------------------------------------------------------------------
(* add_message called from several threads.  The interpreter can switch     *)
(* threads between the steps of a call: the membership test of              *)
(* create_session, the insert of the new Conversation, the fetch of the     *)
(* session's messages list (after which the Message is constructed), and    *)
(* the append to that list.  Each thread makes its calls one after the      *)
(* other; the k-th call of thread t adds the user message "t-k".            *)

\* renumbering as in Collect, with the lists the threads have fetched as roots
CollectHeld(st, held) ==
    LET roots == SessionRefs(st.conversations, 1) \o held
        live == {roots[i] : i \in 1 .. Len(roots)} \ {NoRef}
    IN  [conversations |->
             [s \in DOMAIN st.conversations |->
                 [messages |-> Rank(roots, st.conversations[s].messages),
                  metadata |-> Rank(roots, st.conversations[s].metadata)]],
         heap |-> [n \in 1 .. Cardinality(live) |->
                      st.heap[CHOOSE id \in live : Rank(roots, id) = n]],
         held |-> [i \in 1 .. Len(held) |-> Rank(roots, held[i])]]

\* the state after a step that leaves the store st and the threads th
CommitStep(st, th) ==
    LET c == CollectHeld(st, [i \in 1 .. Len(ThreadOrder) |-> th[ThreadOrder[i]].messages])
    IN  /\ conversations' = c.conversations
        /\ heap' = c.heap
        /\ threads' = [t \in Threads |->
                          [th[t] EXCEPT !.messages =
                              c.held[CHOOSE i \in 1 .. Len(ThreadOrder) : ThreadOrder[i] = t]]]
        /\ last' = [op |-> "add_message_step"]
        /\ UNCHANGED <<context, metadata, qdrant, loop>>

\* thread t calls add_message(sid, "user", "t-k")
ThreadCall(t, sid) ==
    /\ threads[t].pc = "idle"
    /\ Len(threads[t].done) < MaxCalls
    /\ CommitStep(Store,
                  [threads EXCEPT ![t].pc = "test",
                                  ![t].call =
                                      [session_id |-> sid, role |-> "user",
                                       content |-> t \o "-" \o
                                                   ToString(Len(threads[t].done) + 1),
                                       overlapped |->
                                           \E u \in Threads \ {t} : threads[u].pc # "idle",
                                       exc |-> NoExc]])

\* if session_id not in self.conversations
ThreadTest(t) ==
    /\ threads[t].pc = "test"
    /\ LET absent == threads[t].call.session_id \notin DOMAIN conversations
       IN  CommitStep(Store,
                      [threads EXCEPT ![t].absent = absent,
                                      ![t].pc = IF absent THEN "insert" ELSE "fetch"])

\* self.conversations[session_id] = Conversation()
ThreadInsert(t) ==
    /\ threads[t].pc = "insert"
    /\ CommitStep(insert_session(Store, threads[t].call.session_id),
                  [threads EXCEPT ![t].pc = "fetch"])

\* self.conversations[session_id].messages; a KeyError ends the call
ThreadFetch(t) ==
    /\ threads[t].pc = "fetch"
    /\ LET session_id == threads[t].call.session_id
       IN  IF session_id \in DOMAIN conversations
           THEN CommitStep(Store,
                           [threads EXCEPT ![t].pc = "append",
                                           ![t].messages =
                                               conversations[session_id].messages])
           ELSE CommitStep(Store,
                           [threads EXCEPT ![t] =
                               [IdleThread EXCEPT
                                   !.done = Append(threads[t].done,
                                                   [threads[t].call EXCEPT
                                                       !.exc = <<"KeyError", session_id>>])]])

\* .append(Message(role=role, content=content)), and the call returns
ThreadAppend(t) ==
    /\ threads[t].pc = "append"
    /\ LET l == threads[t].messages
           call == threads[t].call
       IN  CommitStep([conversations |-> conversations,
                       heap |-> Put(heap, l, ListObj(Append(heap[l].val,
                                                            Message(call.role, call.content))))],
                      [threads EXCEPT ![t] = [IdleThread EXCEPT
                                                 !.done = Append(threads[t].done, call)]])

NextThreads ==
    \/ \E t \in Threads, sid \in Sessions : ThreadCall(t, sid)
    \/ \E t \in Threads : ThreadTest(t)
    \/ \E t \in Threads : ThreadInsert(t)
    \/ \E t \in Threads : ThreadFetch(t)
    \/ \E t \in Threads : ThreadAppend(t)

SpecThreads == Init /\ [][NextThreads]_vars

----------------------------------------------------------------------------
(* The life of a long session: the session of SpecLong receives messages    *)
(* both from add_message and from queries, whose texts are numbered by      *)
(* their position, and is read, given metadata, created again and cleared.  *)

\* what the generation endpoint answers to the query at position i
LifeAnswers(i) ==
    {Raised(<<"endpoint unreachable">>), Returned(LongMessage(i + 1).content)}

LifeQuery ==
    LET i == Count(Store, LongSession)
    IN  /\ i <= MaxLong
        /\ \E context_size \in ContextSizes :
               \E answer \in SearchAnswers(context_size), llm \in LifeAnswers(i) :
                   Call_process_query(LongSession, LongMessage(i).content, context_size,
                                      answer, llm)

NextLife ==
    \/ LongAddMessage
    \/ LifeQuery
    \/ \E sid \in Sessions : CreateSession(sid)
    \/ \E sid \in Sessions : GetContext(sid, DEFAULT_MAX_MESSAGES)
    \/ \E sid \in Sessions : ClearSession(sid)
    \/ \E sid \in Sessions : UpdateMetadata(sid, [k \in {"topic"} |-> "a"])
    \/ \E sid \in Sessions : GetMetadata(sid)

SpecLife == Init /\ [][NextLife]_vars

----------------------------------------------------------------------------
(* Requests handled concurrently.  query_endpoint is a coroutine on the     *)
(* event loop of the server: requests arrive at any time, and the loop runs *)
(* one task until it suspends at an await that yields.  A task goes through *)
(* the statements of query_endpoint and process_query one by one;           *)
(* Suspends(step) says whether the loop is free for other tasks after a     *)
(* statement.  Task t asks "pay t", and the generation endpoint answers a   *)
(* query with "re: " and the query.                                        *)

\* as Suspends, with a yielding await between the two add_message calls
Suspends_between_appends(step) == step = "user"

\* process_query has no await in its body and search, generate_response and
\* add_message are plain calls, so no statement of a request yields
Suspends(step) == FALSE

ReplyTo(query) == "re: " \o query
ReplyAnswers(query) == {Raised(<<"endpoint unreachable">>), Returned(ReplyTo(query))}
TaskRequests(t) ==
    [query : {"pay " \o t}, session_id : Sessions, context_size : {DEFAULT_CONTEXT_SIZE}]

InFlight == Cardinality({t \in Tasks : loop.tasks[t].pc # "idle"})

\* the state after statement `step` of task t, which leaves the store st and
\* the task as task
CommitTask(st, t, step, task) ==
    LET c == Collect(st, NoRef, NoRef)
    IN  /\ loop.running \in {t, "none"}
        /\ conversations' = c.conversations
        /\ heap' = c.heap
        /\ loop' = [running |-> IF step = "return" \/ Suspends(step) THEN "none" ELSE t,
                    tasks |-> [loop.tasks EXCEPT ![t] = task]]
        /\ last' = [op |-> "request_step"]
        /\ UNCHANGED <<context, metadata, qdrant, threads>>

\* a request arrives for task t while the loop may be running another task
Receive(t, request) ==
    /\ loop.tasks[t].pc = "idle"
    /\ Total(Store, 1) + 2 * InFlight + 2 <= 2 * MaxTurns
    /\ loop' = [loop EXCEPT !.tasks[t] =
                    [IdleTask EXCEPT !.pc = "ready", !.request = request,
                                     !.overlapped = InFlight > 0]]
    /\ last' = [op |-> "request_step"]
    /\ UNCHANGED <<conversations, heap, context, metadata, qdrant, threads>>

\* session_id = request.session_id or str(uuid.uuid4())
Enter(t, uuid) ==
    /\ loop.tasks[t].pc = "ready"
    /\ uuid \notin DOMAIN conversations
    /\ CommitTask(Store, t, "enter",
                  [loop.tasks[t] EXCEPT !.pc = "search",
                                        !.session_id = SessionIdOr(loop.tasks[t].request, uuid)])

\* relevant_docs = self.vector_store.search(query, limit=context_size)
SearchStep(t, answer) ==
    LET task == loop.tasks[t]
        r == search(task.request.query, task.request.context_size, answer)
    IN  /\ task.pc = "search"
        /\ CommitTask(Store, t, "search",
                      IF r.exc # NoExc
                      THEN [task EXCEPT !.pc = "return",
                                        !.exc = Wrap("Failed to process query", r.exc)]
                      ELSE [task EXCEPT !.pc = "history", !.relevant_docs = r.val])

\* conversation_history = self.mcp.get_context(session_id)
HistoryStep(t) ==
    LET task == loop.tasks[t]
        o == get_context(Store, task.session_id, DEFAULT_MAX_MESSAGES)
    IN  /\ task.pc = "history"
        /\ CommitTask(o.st, t, "history",
                      [task EXCEPT !.pc = "generate",
                                   !.conversation_history = o.st.heap[o.ret].val])

\* response = self.llm_chain.generate_response(...)
GenerateStep(t, llm) ==
    LET task == loop.tasks[t]
        r == generate_response(task.relevant_docs, task.conversation_history,
                               task.request.query, llm)
    IN  /\ task.pc = "generate"
        /\ CommitTask(Store, t, "generate",
                      IF r.exc # NoExc
                      THEN [task EXCEPT !.pc = "return",
                                        !.exc = Wrap("Failed to process query", r.exc)]
                      ELSE [task EXCEPT !.pc = "user", !.response = r.val])

\* self.mcp.add_message(session_id, "user", query)
UserStep(t) ==
    LET task == loop.tasks[t]
    IN  /\ task.pc = "user"
        /\ CommitTask(add_message(Store, task.session_id, "user", task.request.query).st,
                      t, "user", [task EXCEPT !.pc = "assistant"])

\* self.mcp.add_message(session_id, "assistant", response)
AssistantStep(t) ==
    LET task == loop.tasks[t]
    IN  /\ task.pc = "assistant"
        /\ CommitTask(add_message(Store, task.session_id, "assistant", task.response).st,
                      t, "assistant", [task EXCEPT !.pc = "return"])

\* the QueryResponse or the HTTPException leaves the handler
Return(t) ==
    /\ loop.tasks[t].pc = "return"
    /\ CommitTask(Store, t, "return",
                  [IdleTask EXCEPT !.overlapped = loop.tasks[t].overlapped])

NextLoop ==
    \/ \E t \in Tasks : \E request \in TaskRequests(t) : Receive(t, request)
    \/ \E t \in Tasks, uuid \in Uuids : Enter(t, uuid)
    \/ \E t \in Tasks : \E answer \in SearchAnswers(loop.tasks[t].request.context_size) :
           SearchStep(t, answer)
    \/ \E t \in Tasks : HistoryStep(t)
    \/ \E t \in Tasks : \E llm \in ReplyAnswers(loop.tasks[t].request.query) :
           GenerateStep(t, llm)
    \/ \E t \in Tasks : UserStep(t)
    \/ \E t \in Tasks : AssistantStep(t)
    \/ \E t \in Tasks : Return(t)

SpecLoop == Init /\ [][NextLoop]_vars

----------------------------------------------------------------------------
(* Reading: the long session grows by add_message and by queries, metadata  *)
(* is set, and contexts and metadata are read with every window, also of    *)
(* sessions that do not exist.                                              *)

NextRead ==
    \/ LongAddMessage
    \/ LifeQuery
    \/ \E sid \in Sessions, k \in Windows \cup {DEFAULT_MAX_MESSAGES} : GetContext(sid, k)
    \/ \E sid \in Sessions : GetMetadata(sid)
    \/ \E sid \in Sessions : UpdateMetadata(sid, [k \in {"topic"} |-> "a"])

SpecRead == Init /\ [][NextRead]_vars

----------------------------------------------------------------------------
(* Properties *)

\* the list the caller holds, by value
Held == heap[context].val

\* C1: get_context(id, max_messages=k) with k >= 1 on a session of n messages
\* returns exactly min(k, n) messages, the most recent ones in insertion order;
\* the default window is 10.
C1_WindowIsMostRecent ==
    (last.op = "get_context" /\ last.max_messages >= 1) =>
        LET msgs == History(Store, last.sid)
            n == Len(msgs)
            m == Min(last.max_messages, n)
        IN  /\ last.exc = NoExc
            /\ Len(Held) = m
            /\ \A i \in 1 .. m : Held[i] = msgs[n - m + i]

\* a context read with the default window from a session that holds more than
\* the window: the ten most recent messages came back
C1_Witness ==
    /\ last.op = "get_context"
    /\ last.max_messages = DEFAULT_MAX_MESSAGES
    /\ Count(Store, last.sid) > DEFAULT_MAX_MESSAGES
    /\ Len(Held) = DEFAULT_MAX_MESSAGES
    /\ Held[1] = LongMessage(Count(Store, last.sid) - DEFAULT_MAX_MESSAGES)

\* C2: add_message never fails, accepts any role and content verbatim, creates
\* the session if absent and appends exactly one message (role, content) at the
\* end of the session's previous sequence, which is otherwise unchanged.
C2_AddMessageAppends ==
    [][last'.op = "add_message" =>
          /\ last'.exc = NoExc
          /\ last'.sid \in DOMAIN conversations'
          /\ History(StoreAfter, last'.sid) =
                 Append(History(Store, last'.sid), Message(last'.role, last'.content))]_vars

\* a message with a role outside user/assistant/system and empty content was
\* appended behind an earlier message
C2_Witness ==
    /\ last.op = "add_message"
    /\ last.role = "custom_assistant"
    /\ last.content = ""
    /\ Len(History(Store, last.sid)) = 2
    /\ History(Store, last.sid)[2] = Message("custom_assistant", "")
    /\ History(Store, last.sid)[1] = Message("assistant", "   ")

\* C3: the sequence get_context returned is a copy: an add_message made while
\* the caller holds it leaves its length and its elements as they were.
C3_SnapshotUnchanged ==
    [][(last'.op = "add_message" /\ context # NoRef) =>
          (context' # NoRef /\ heap'[context'].val = heap[context].val)]_vars

\* the caller holds a full window it read earlier, and the session has grown
\* past it since
C3_Witness ==
    /\ last.op = "add_message"
    /\ context # NoRef
    /\ Len(Held) = DEFAULT_MAX_MESSAGES
    /\ Count(Store, last.sid) = DEFAULT_MAX_MESSAGES + 2
    /\ Held[DEFAULT_MAX_MESSAGES] = LongMessage(DEFAULT_MAX_MESSAGES - 1)

\* C4: add_message on a session leaves every other session as it was: the same
\* sessions exist, with the same messages and metadata, and get_context on them
\* returns what it returned before.
C4_SessionsIsolated ==
    [][last'.op = "add_message" =>
          \A b \in Sessions \ {last'.sid} :
              /\ b \in DOMAIN conversations' <=> b \in DOMAIN conversations
              /\ b \in DOMAIN conversations =>
                    /\ View(StoreAfter)[b] = View(Store)[b]
                    /\ LET before == get_context(Store, b, DEFAULT_MAX_MESSAGES)
                           after == get_context(StoreAfter, b, DEFAULT_MAX_MESSAGES)
                       IN  after.st.heap[after.ret].val = before.st.heap[before.ret].val]_vars

\* two sessions hold one message each, different ones, the second just added
C4_Witness ==
    /\ last.op = "add_message"
    /\ DOMAIN conversations = Sessions
    /\ \A s \in Sessions : Count(Store, s) = 1
    /\ \E s \in Sessions : History(Store, s) # History(Store, last.sid)

\* C5: get_context on a session id that is not in the store returns an empty
\* sequence and raises nothing, whatever max_messages is, and does not create
\* the session.
C5_UnknownSessionEmpty ==
    [][(last'.op = "get_context" /\ last'.sid \notin DOMAIN conversations) =>
          /\ last'.exc = NoExc
          /\ context' # NoRef
          /\ heap'[context'] = ListObj(<<>>)
          /\ last'.sid \notin DOMAIN conversations']_vars

\* an unknown session was read with a negative window while another session
\* holds messages, and an empty list came back
C5_Witness ==
    /\ last.op = "get_context"
    /\ last.sid \notin DOMAIN conversations
    /\ last.max_messages < 0
    /\ \E s \in DOMAIN conversations : Count(Store, s) > 0
    /\ context # NoRef
    /\ Held = <<>>

\* the value a call that returns an object hands back
Value(o) == o.st.heap[o.ret].val

\* the metadata of a session, empty for a session that is absent
Meta(st, s) == IF s \in DOMAIN st.conversations THEN MetadataOf(st, s) ELSE EmptyDict

\* every session but s is as it was: present or absent, messages and metadata
OthersUnchanged(s) ==
    \A b \in (DOMAIN conversations \cup DOMAIN conversations') \ {s} :
        /\ b \in DOMAIN conversations' <=> b \in DOMAIN conversations
        /\ b \in DOMAIN conversations => View(StoreAfter)[b] = View(Store)[b]

\* C6: clear_session(id) removes the session whatever it held: right after it
\* id is not in the store, get_context(id) is empty and get_metadata(id) is
\* the empty mapping; the other sessions are untouched, so on an absent id
\* nothing changes; it raises nothing; and an add_message(id, ...) that follows
\* starts a new session holding that message alone, with empty metadata.
C6_ClearRemovesSession ==
    [][/\ last'.op = "clear_session" =>
             /\ last'.exc = NoExc
             /\ last'.sid \notin DOMAIN conversations'
             /\ Value(get_context(StoreAfter, last'.sid, DEFAULT_MAX_MESSAGES)) = <<>>
             /\ Value(get_metadata(StoreAfter, last'.sid)) = EmptyDict
             /\ OthersUnchanged(last'.sid)
             /\ last'.sid \notin DOMAIN conversations => View(StoreAfter) = View(Store)
       /\ (last.op = "clear_session" /\ last'.op = "add_message" /\ last'.sid = last.sid) =>
             /\ History(StoreAfter, last'.sid) = <<Message(last'.role, last'.content)>>
             /\ Meta(StoreAfter, last'.sid) = EmptyDict]_vars

\* a session that held messages and metadata was cleared and is gone
C6_Witness ==
    /\ last.op = "clear_session"
    /\ last.held[1] >= 1
    /\ last.held[2] >= 1
    /\ last.sid \notin DOMAIN conversations
    /\ DOMAIN conversations # {}

\* C7: create_session(id) raises nothing; on an absent id it adds a session
\* with no messages and empty metadata and changes no other session; on an
\* existing id it changes nothing; a second call changes nothing.
C7_CreateSessionIdempotent ==
    [][last'.op = "create_session" =>
          /\ last'.exc = NoExc
          /\ last'.sid \in DOMAIN conversations'
          /\ OthersUnchanged(last'.sid)
          /\ last'.sid \in DOMAIN conversations => View(StoreAfter) = View(Store)
          /\ last'.sid \notin DOMAIN conversations =>
                View(StoreAfter)[last'.sid] = [messages |-> <<>>, metadata |-> EmptyDict]
          /\ View(create_session(StoreAfter, last'.sid).st) = View(StoreAfter)]_vars

\* create_session was called on a session that holds messages and metadata,
\* which are still there
C7_Witness ==
    /\ last.op = "create_session"
    /\ last.sid \in DOMAIN conversations
    /\ Len(MessagesOf(Store, last.sid)) >= 1
    /\ DOMAIN MetadataOf(Store, last.sid) # {}

\* C8: update_metadata(id, m) creates the session if absent and merges m:
\* afterwards every key of m maps to m's value and every other key is as
\* before; get_metadata(id) returns the session's metadata, and the empty
\* mapping for an unknown session.
C8_MetadataMerge ==
    [][/\ last'.op = "update_metadata" =>
             LET old == Meta(Store, last'.sid)
                 new == Meta(StoreAfter, last'.sid)
                 m == last'.md
             IN  /\ last'.exc = NoExc
                 /\ last'.sid \in DOMAIN conversations'
                 /\ DOMAIN new = DOMAIN old \cup DOMAIN m
                 /\ \A k \in DOMAIN m : new[k] = m[k]
                 /\ \A k \in DOMAIN old \ DOMAIN m : new[k] = old[k]
       /\ last'.op = "get_metadata" =>
             /\ last'.exc = NoExc
             /\ metadata' # NoRef
             /\ heap'[metadata'] = DictObj(Meta(Store, last'.sid))]_vars

\* a dict with one key was merged into metadata that had two: the key it names
\* was overwritten and the other one kept
C8_Witness ==
    /\ last.op = "update_metadata"
    /\ last.md = [k \in {"topic"} |-> "a"]
    /\ MetadataOf(Store, last.sid) = [k \in {"topic", "lang"} |-> "a"]

\* C9: a process_query that fails (in the search, the history read or the
\* generation) leaves the store as it was: the same sessions, each with the
\* same messages and metadata.
C9_FailureLeavesStore ==
    [][(last'.op = "process_query" /\ last'.exc # NoExc) =>
          View(StoreAfter) = View(Store)]_vars

\* the generation failed for a query on a session that does not exist, while
\* another session holds a turn and metadata
C9_Witness ==
    /\ last.op = "process_query"
    /\ last.exc = <<"Failed to process query", "Failed to generate response",
                    "endpoint unreachable">>
    /\ last.sid \notin DOMAIN conversations
    /\ \E b \in DOMAIN conversations :
           Len(MessagesOf(Store, b)) = 2 /\ DOMAIN MetadataOf(Store, b) # {}

\* C10: a process_query that succeeds appends to its session exactly the user
\* message with the query and then the assistant message with the response it
\* returns; the session's metadata and every other session are as before.
C10_TurnAppended ==
    [][(last'.op = "process_query" /\ last'.exc = NoExc) =>
          /\ History(StoreAfter, last'.sid) =
                 History(Store, last'.sid) \o
                     <<Message("user", last'.query), Message("assistant", last'.response)>>
          /\ Meta(StoreAfter, last'.sid) = Meta(Store, last'.sid)
          /\ OthersUnchanged(last'.sid)]_vars

\* a query succeeded on a session while the other session holds a turn: the
\* session holds its turn, query first, a different response second
C10_Witness ==
    /\ last.op = "process_query"
    /\ last.exc = NoExc
    /\ last.query # last.response
    /\ History(Store, last.sid) =
           <<Message("user", last.query), Message("assistant", last.response)>>
    /\ \E b \in DOMAIN conversations \ {last.sid} : Len(MessagesOf(Store, b)) = 2

\* C11: the history a query hands to generate_response is the last min(10, n)
\* messages its session held before the query, oldest first, n being the number
\* of messages stored (a successful query adds two, a failed one none); it does
\* not contain the query itself, and the window is 10 whatever context_size is.
\* generate_response is called unless the search raised.
C11_HistoryIsStoredWindow ==
    [][last'.op = "process_query" =>
          LET msgs == History(Store, last'.sid)
              n == Len(msgs)
              m == Min(DEFAULT_MAX_MESSAGES, n)
              after == History(StoreAfter, last'.sid)
          IN  /\ last'.generation.called <=>
                     last'.exc # <<"Failed to process query", "search unavailable">>
              /\ last'.generation.called =>
                     /\ last'.generation.conversation_history = SubSeq(msgs, n - m + 1, n)
                     /\ \A i \in 1 .. m :
                            last'.generation.conversation_history[i] # Message("user", last'.query)
              /\ Len(after) = IF last'.exc = NoExc THEN n + 2 ELSE n]_vars

\* a follow-up query with context_size 1 on a session that held twelve messages
\* succeeded: the ten latest of the twelve were handed on, and the session
\* holds fourteen
C11_Witness ==
    /\ last.op = "process_query"
    /\ last.exc = NoExc
    /\ last.context_size = 1
    /\ Count(Store, last.sid) = DEFAULT_MAX_MESSAGES + 4
    /\ last.generation.called
    /\ Len(last.generation.conversation_history) = DEFAULT_MAX_MESSAGES
    /\ last.generation.conversation_history[1] = LongMessage(2)
    /\ last.generation.conversation_history[DEFAULT_MAX_MESSAGES] = LongMessage(11)

\* C12: the endpoint makes up a session id only for a request without
\* session_id; with any session_id string supplied, the empty one included, the
\* query runs under that id: a successful turn is stored under it and the
\* response names it.
C12_SuppliedIdKept ==
    last.op = "query_endpoint" =>
        IF "session_id" \in DOMAIN last.request
        THEN /\ last.response.session_id = last.request.session_id
             /\ last.response.status = 200 =>
                    /\ last.response.body.session_id = last.request.session_id
                    /\ Count(Store, last.request.session_id) >= 2
        ELSE last.response.session_id \in Uuids

\* C13: a query ends with status 200 and the body (session_id, response), or
\* with status 500 and no body; it is 500 exactly when the search, the
\* formatting or the generation raised, and the detail is then "Failed to
\* process query" followed by the message of what raised.
C13_OneOfTwoOutcomes ==
    last.op = "query_endpoint" =>
        LET searchFailed == last.answer.exc # NoExc
            formatFailed == /\ ~searchFailed
                            /\ \E i \in 1 .. Len(last.answer.val) :
                                   "content" \notin DOMAIN last.answer.val[i]
            generationFailed == last.llm.exc # NoExc
            underlying ==
                IF searchFailed THEN last.answer.exc
                ELSE IF formatFailed
                THEN <<"Failed to generate response", "Invalid context format", "'content'">>
                ELSE <<"Failed to generate response">> \o last.llm.exc
        IN  IF searchFailed \/ formatFailed \/ generationFailed
            THEN /\ last.response.status = 500
                 /\ DOMAIN last.response = {"session_id", "status", "detail"}
                 /\ last.response.detail = <<"Failed to process query">> \o underlying
            ELSE /\ last.response.status = 200
                 /\ DOMAIN last.response = {"session_id", "status", "body"}
                 /\ last.response.body = [session_id |-> last.response.session_id,
                                          response |-> last.llm.val]

\* a query whose search returned a document without content while the
\* generation endpoint was ready to answer ended as a 500 naming the format error
C13_Witness ==
    /\ last.op = "query_endpoint"
    /\ last.llm.exc = NoExc
    /\ last.response.status = 500
    /\ last.response.detail = <<"Failed to process query", "Failed to generate response",
                                "Invalid context format", "'content'">>

\* what generate_response does for its arguments as far as failure goes:
\* the message of the formatting error, if the context or the history is malformed
FormatError(docs, history) ==
    IF \E i \in 1 .. Len(docs) : "content" \notin DOMAIN docs[i]
    THEN <<"Invalid context format", "'content'">>
    ELSE IF \E i \in 1 .. Len(history) : "role" \notin DOMAIN history[i]
    THEN <<"Invalid history format", "no attribute 'role'">>
    ELSE NoExc

\* a call fails with "Failed to generate response" around the message of the
\* formatting or of the endpoint, or returns the endpoint's text as it is
GenerationOutcome(call) ==
    LET formatError == FormatError(call.context, call.conversation_history)
    IN  IF formatError # NoExc
        THEN call.result.exc = <<"Failed to generate response">> \o formatError
        ELSE IF call.llm.exc # NoExc
        THEN call.result.exc = <<"Failed to generate response">> \o call.llm.exc
        ELSE call.result.exc = NoExc /\ call.result.val = call.llm.val

\* C14 as claimed: every call of generate_response invokes the chain exactly
\* once, and fails with the wrapped message or returns the text verbatim.
C14_InvokedExactlyOnce ==
    last.op = "generate_response" =>
        /\ last.result.invocations = 1
        /\ GenerationOutcome(last)

\* C14: generate_response invokes the chain at most once per call and never
\* retries: exactly once when the context and the history format, not at all
\* when formatting raises; if formatting or the invocation raises, the call
\* fails with "Failed to generate response" wrapping the underlying message,
\* and otherwise the endpoint's text is returned verbatim, also for empty
\* context and empty history.
C14_InvokedAtMostOnce ==
    last.op = "generate_response" =>
        /\ last.result.invocations =
               IF FormatError(last.context, last.conversation_history) # NoExc THEN 0 ELSE 1
        /\ GenerationOutcome(last)

\* a call with a document that has no content failed in formatting, with an
\* endpoint that was ready to answer and was not invoked
C14_Witness ==
    /\ last.op = "generate_response"
    /\ last.llm.exc = NoExc
    /\ last.conversation_history = <<>>
    /\ last.result.exc = <<"Failed to generate response", "Invalid context format",
                           "'content'">>
    /\ last.result.invocations = 0

\* C15: constructing a VectorStore creates the collection exactly when no
\* collection of that name exists; when one exists no create call is made and
\* every collection, its records included, is as before; after a construction
\* the collection exists, and over any number of constructions it was created
\* at most once.  A construction that cannot reach the database changes nothing.
C15_BootstrapIdempotent ==
    [][last'.op = "VectorStore" =>
          /\ IF last'.exc # NoExc
             THEN qdrant' = qdrant
             ELSE IF COLLECTION_NAME \in DOMAIN qdrant.collections
             THEN /\ qdrant'.create_calls = qdrant.create_calls
                  /\ qdrant'.collections = qdrant.collections
             ELSE /\ qdrant'.create_calls = qdrant.create_calls + 1
                  /\ DOMAIN qdrant'.collections =
                         DOMAIN qdrant.collections \cup {COLLECTION_NAME}
                  /\ qdrant'.collections[COLLECTION_NAME] = NewCollection
                  /\ \A c \in DOMAIN qdrant.collections :
                         qdrant'.collections[c] = qdrant.collections[c]
          /\ last'.exc = NoExc => COLLECTION_NAME \in DOMAIN qdrant'.collections
          /\ qdrant'.create_calls <= 1]_vars

\* the third VectorStore was constructed on a database whose collection the
\* first one created and which has been loaded with a document since
C15_Witness ==
    /\ last.op = "VectorStore"
    /\ last.exc = NoExc
    /\ qdrant.stores = MaxBoots
    /\ qdrant.create_calls = 1
    /\ Len(qdrant.collections[COLLECTION_NAME].records) >= 1

\* every thread has returned from its calls
AllReturned == \A t \in Threads : threads[t].pc = "idle"

\* the session ids thread t has called add_message on
IdsOf(t) == {threads[t].done[i].session_id : i \in 1 .. Len(threads[t].done)}

\* the messages thread t has added to session s, in the order of its calls
RECURSIVE SentFrom(_, _, _)
SentFrom(t, s, i) ==
    IF i > Len(threads[t].done) THEN <<>>
    ELSE (IF threads[t].done[i].session_id = s
          THEN <<Message(threads[t].done[i].role, threads[t].done[i].content)>>
          ELSE <<>>) \o SentFrom(t, s, i + 1)

RECURSIVE CallsDone(_)
CallsDone(i) ==
    IF i > Len(ThreadOrder) THEN 0 ELSE Len(threads[ThreadOrder[i]].done) + CallsDone(i + 1)

\* C16: when the threads call add_message on different session ids, then
\* however their steps interleave, once all calls have returned each session
\* holds exactly the messages added to it, in the order its thread made the
\* calls, and no other session exists.
C16_DistinctIdsDoNotInterfere ==
    (AllReturned /\ \A t, u \in Threads : t # u => IdsOf(t) \cap IdsOf(u) = {}) =>
        /\ \A t \in Threads : \A i \in 1 .. Len(threads[t].done) :
               threads[t].done[i].exc = NoExc
        /\ DOMAIN conversations = UNION {IdsOf(t) : t \in Threads}
        /\ \A t \in Threads : \A s \in IdsOf(t) : History(Store, s) = SentFrom(t, s, 1)

\* both threads have made two calls each on a session of their own, a call of
\* each started while the other thread was inside add_message, and each
\* session holds its two messages
C16_Witness ==
    /\ AllReturned
    /\ \A t \in Threads :
           /\ Len(threads[t].done) = 2
           /\ Cardinality(IdsOf(t)) = 1
           /\ \E i \in 1 .. 2 : threads[t].done[i].overlapped
    /\ IdsOf("t1") # IdsOf("t2")
    /\ \A s \in Sessions : Count(Store, s) = 2

\* C17: when the threads call add_message on one session id, then however
\* their steps interleave, once all n calls have returned the session holds
\* exactly n messages, one per call.
C17_NoLostUpdate ==
    \A s \in Sessions :
        (AllReturned /\ \A t \in Threads : IdsOf(t) \subseteq {s}) =>
            /\ Count(Store, s) = CallsDone(1)
            /\ \A t \in Threads : \A i \in 1 .. Len(threads[t].done) :
                   \E j \in 1 .. Count(Store, s) :
                       History(Store, s)[j] = Message(threads[t].done[i].role,
                                                        threads[t].done[i].content)

\* C18: get_context(id, max_messages=0) on a session that holds n >= 1
\* messages returns min(0, n) = 0 messages, the empty sequence.
C18_ZeroWindowEmpty ==
    (last.op = "get_context" /\ last.max_messages = 0 /\ Count(Store, last.sid) >= 1) =>
        Held = <<>>

\* C19: the mapping get_metadata returned is a copy: an update_metadata made
\* while the caller holds it leaves its keys and values as they were when it
\* was returned.
C19_MetadataSnapshot ==
    [][(last'.op = "update_metadata" /\ metadata # NoRef) =>
          (metadata' # NoRef /\ heap'[metadata'].val = heap[metadata].val)]_vars

\* a is the beginning of b
IsPrefix(a, b) == Len(a) <= Len(b) /\ SubSeq(b, 1, Len(a)) = a

\* C20: in every step a session that exists still exists afterwards and its
\* messages before the step are the beginning of its messages after it, unless
\* the step is clear_session on that session; an add_message makes the session
\* one message longer whatever its length, so the window of get_context does
\* not cap what is stored.
C20_AppendOnly ==
    [][\A s \in DOMAIN conversations :
          \/ last'.op = "clear_session" /\ last'.sid = s
          \/ /\ s \in DOMAIN conversations'
             /\ IsPrefix(History(Store, s), History(StoreAfter, s))
             /\ (last'.op = "add_message" /\ last'.sid = s) =>
                    Count(StoreAfter, s) = Count(Store, s) + 1]_vars

\* the long session has been given its twelfth message, with the first one
\* still in place, while the other session exists
C20_Witness ==
    /\ last.op = "add_message"
    /\ Count(Store, LongSession) = DEFAULT_MAX_MESSAGES + 2
    /\ History(Store, LongSession)[1].content = LongMessage(0).content
    /\ History(Store, LongSession)[DEFAULT_MAX_MESSAGES + 2] = LongMessage(DEFAULT_MAX_MESSAGES + 1)
    /\ DOMAIN conversations = Sessions

\* the records of the collection in database db
Records(db) == db.collections[COLLECTION_NAME].records

\* C21: add_documents with N documents writes the records with ids 0..N-1,
\* record i holding documents[i], and leaves every record with id >= N as it
\* was; so a rerun with fewer documents leaves the records beyond the new
\* count holding the earlier documents, and a search can still return each of
\* them.
C21_StaleRecordsKept ==
    [][(last'.op = "add_documents" /\ last'.exc = NoExc) =>
          LET documents == last'.documents
              N == Len(documents)
              old == Records(qdrant)
              new == Records(qdrant')
          IN  /\ Len(new) = Max(Len(old), N)
              /\ \A i \in 1 .. N : new[i] = documents[i]
              /\ \A i \in (N + 1) .. Len(old) :
                     /\ new[i] = old[i]
                     /\ \E answer \in Hits(qdrant', DEFAULT_CONTEXT_SIZE, TRUE) :
                            \E j \in 1 .. Len(answer.val) : answer.val[j] = old[i]
              /\ \A c \in DOMAIN qdrant.collections \ {COLLECTION_NAME} :
                     qdrant'.collections[c] = qdrant.collections[c]]_vars

\* one document was loaded into a collection that held two: the first record
\* is the new document, the second is still the other document of the earlier
\* load
C21_Witness ==
    /\ last.op = "add_documents"
    /\ last.exc = NoExc
    /\ Len(last.documents) = 1
    /\ last.held = 2
    /\ Len(Records(qdrant)) = 2
    /\ Records(qdrant)[1] = last.documents[1]
    /\ Records(qdrant)[2] # last.documents[1]

\* C22: get_context(id, k) and get_metadata(id) leave the store as it was: the
\* same sessions, each with the same messages and metadata; they create no
\* session for an unknown id, so a query that fails on a session that does not
\* exist leaves it absent.
C22_ReadsLeaveStore ==
    [][/\ last'.op \in {"get_context", "get_metadata"} =>
             /\ DOMAIN conversations' = DOMAIN conversations
             /\ View(StoreAfter) = View(Store)
       /\ (last'.op = "process_query" /\ last'.exc # NoExc
              /\ last'.sid \notin DOMAIN conversations) =>
             last'.sid \notin DOMAIN conversations']_vars

\* a query on a session that does not exist read its history, failed in the
\* generation, and the session is still absent while the other session exists
C22_Witness ==
    /\ last.op = "process_query"
    /\ last.generation.called
    /\ last.exc = <<"Failed to process query", "Failed to generate response",
                    "endpoint unreachable">>
    /\ last.sid \notin DOMAIN conversations
    /\ DOMAIN conversations # {}

\* the messages are turns: a user message, then the reply to that very query
Paired(msgs) ==
    /\ Len(msgs) % 2 = 0
    /\ \A i \in 1 .. Len(msgs) :
           IF i % 2 = 1 THEN msgs[i].role = "user"
           ELSE msgs[i] = Message("assistant", ReplyTo(msgs[i - 1].content))

\* C23: with queries handled concurrently, whenever no query is between its
\* two appends every session's messages are an even number of messages made
\* of pairs (user: query, assistant: response to that query); and in every
\* state a user message that has a message after it has its own response
\* there, not a message of another query.
C23_TurnsIntact ==
    /\ (\A t \in Tasks : loop.tasks[t].pc # "assistant") =>
           \A s \in DOMAIN conversations : Paired(History(Store, s))
    /\ \A s \in DOMAIN conversations :
           \A i \in 1 .. (Count(Store, s) - 1) :
               History(Store, s)[i].role = "user" =>
                   History(Store, s)[i + 1] =
                       Message("assistant", ReplyTo(History(Store, s)[i].content))

\* two requests on one session were in flight together and both succeeded:
\* the session holds the two turns, of different queries, one after the other
C23_Witness ==
    /\ \A t \in Tasks : loop.tasks[t].pc = "idle"
    /\ \E t \in Tasks : loop.tasks[t].overlapped
    /\ \E s \in DOMAIN conversations :
           /\ Count(Store, s) = 4
           /\ History(Store, s)[1].content # History(Store, s)[3].content
           /\ Paired(History(Store, s))

====
